---- MODULE Spec2Model ----
(***************************************************************************)
(* Lake sink of nested-star-processors: the batching sink (lakesink.rs),   *)
(* the Kafka record stream with its manual offset tracker (kafka.rs) and   *)
(* the orchestrator that spawns the sinks and fans out cancellation        *)
(* (main.rs).                                                              *)
(*                                                                         *)
(* One action is one poll step of a task between two await points.  The    *)
(* broker side (the partitioned log, the consumer group's assignment and   *)
(* its committed offsets) is the environment of the program: the log is    *)
(* fixed, a rebalance may move a partition to another live sink, which     *)
(* then resumes from the group's committed offset, and an offset commit    *)
(* overwrites the group's committed offset of every partition it names.    *)
(*                                                                         *)
(* Modelling notes:                                                        *)
(*  - batch holds the buffered strings; each carries the (partition,       *)
(*    offset) it was read from so that stored and committed records can be *)
(*    told apart.  consumed, storeLog, commitLog and drainAt are history:  *)
(*    no action reads them.                                                *)
(*  - tpl is the tracker, a TopicPartitionList: the list of its elements   *)
(*    in the order they were added.  add_partition_offset adds an element  *)
(*    and sets its offset; setting Offset::Offset(n) cannot fail, so the   *)
(*    "Offset store error" return of consume has no action.  The topic is  *)
(*    the one subscribed topic and is left out of the elements.            *)
(*  - consumer.commit(.., Async) that returns Ok is applied to the group   *)
(*    in the same step; one that returns Err sends nothing.  The group     *)
(*    applies the elements of the list in order, so the last element of a  *)
(*    partition is the offset it keeps.                                    *)
(*  - A sink that returns Err reaches process::exit(1) in the same poll    *)
(*    (no await in between): every task stops there.  A panic of main      *)
(*    (unwrap) ends the process with status 101.                           *)
(***************************************************************************)
EXTENDS Integers, Sequences, FiniteSets, TLC

\* ------------------------------------------------------------------ bounds

\* default_value of --lakesink-consumer-count
NumSinks == 2
\* partitions of the subscribed topic
NumPartitions == 2
\* records held by each partition of the log
LogLen == 3
\* partition reassignments the consumer group performs in one run
MaxRebalances == 2

Sinks == 1..NumSinks
Partitions == 0..(NumPartitions - 1)

\* ------------------------------------------------------------ the log

Alphabet == <<"a", "b", "c", "d", "e", "f", "g", "h">>

\* Text of the record at (p, o): "a", "b", .. on partition 0, then partition 1, ...
PayloadText(p, o) == Alphabet[((p * (LogLen - 1) + o) % Len(Alphabet)) + 1]

\* What msg.payload_view::<str>() finds in the record at (p, o). The last record
\* of a partition has no payload (even partitions) or bytes that are not UTF-8
\* (odd partitions); every other record holds text.
payload_view(p, o) ==
  IF o # LogLen - 1 THEN [kind |-> "text", s |-> PayloadText(p, o)]
  ELSE IF p % 2 = 0 THEN [kind |-> "none", s |-> ""]
  ELSE [kind |-> "invalid", s |-> ""]

\* ------------------------------------------------------- configuration

\* LAKE_SINK_BATCH_SIZE as the process environment holds it: unset, or a
\* string given as its characters.
Unset == [set |-> FALSE, chars |-> <<>>]
EnvStr(cs) == [set |-> TRUE, chars |-> cs]
EnvValues == {Unset, EnvStr(<<"0">>), EnvStr(<<"3">>), EnvStr(<<"x">>)}

BATCH_SIZE_DEFAULT == <<"1", "0", "0", "0">>

Digits == <<"0", "1", "2", "3", "4", "5", "6", "7", "8", "9">>
IsDigit(c) == \E i \in 1..10 : Digits[i] = c
DigitVal(c) == (CHOOSE i \in 1..10 : Digits[i] = c) - 1

RECURSIVE DigitsValue(_, _)
DigitsValue(cs, acc) ==
  IF cs = <<>> THEN acc ELSE DigitsValue(Tail(cs), acc * 10 + DigitVal(Head(cs)))

ParseErr == -1
\* usize::from_str: an optional '+', then at least one decimal digit.
usize_from_str(cs) ==
  LET body == IF cs # <<>> /\ Head(cs) = "+" THEN Tail(cs) ELSE cs
  IN  IF body # <<>> /\ \A i \in 1..Len(body) : IsDigit(body[i])
      THEN DigitsValue(body, 0)
      ELSE ParseErr

VARIABLES
  env,         \* value of LAKE_SINK_BATCH_SIZE
  mode,        \* which of --aggregator / --server accompanies --lake-sink
  mainPc,      \* position of main
  exitCode,    \* exit status of the process, NoExit while it runs
  cancelled,   \* lakesink_cancel_tokens: token of each sink
  pc,          \* position of each sink task
  batch,       \* batch of each sink: the buffered records
  tpl,         \* tpl of each sink's KafkaRecordStream: its elements
  drainAt,     \* set when a sink observes cancellation
  consumed,    \* history: records returned by consume, in order
  storeLog,    \* history: calls of lake.store
  commitLog,   \* history: calls of consumer.commit
  owner,       \* consumer group: owner of each partition
  position,    \* consumer group: next offset the owner fetches
  committed,   \* consumer group: committed offset of each partition
  rebalances   \* reassignments so far

vars == <<env, mode, mainPc, exitCode, cancelled, pc, batch, tpl, drainAt,
          consumed, storeLog, commitLog, owner, position, committed, rebalances>>

sinkVars == <<pc, batch, tpl, drainAt, consumed, storeLog, commitLog>>
groupVars == <<owner, position, committed, rebalances>>
mainVars == <<mainPc, cancelled>>

NoExit == -1
NoOffset == -1

\* batch_size of start_lakesink
batch_size ==
  usize_from_str(IF env.set THEN env.chars ELSE BATCH_SIZE_DEFAULT)

Running == exitCode = NoExit

\* ---------------------------------------------------------------- helpers

RECURSIVE join(_, _)
\* [String]::join(sep): the elements with sep between neighbours
join(strs, sep) ==
  IF strs = <<>> THEN ""
  ELSE IF Len(strs) = 1 THEN strs[1]
  ELSE strs[1] \o sep \o join(Tail(strs), sep)

\* the strings a batch holds
Payloads(b) == [i \in 1..Len(b) |-> b[i].v]

\* ---------------------------------------------------------------- Init

Modes == {"aggregator", "server", "sink_only"}

Init ==
  /\ env \in EnvValues
  /\ mode \in Modes
  /\ mainPc = CASE mode = "aggregator" -> "aggregating"
                [] mode = "server" -> "serving"
                [] OTHER -> "joining"
  /\ exitCode = NoExit
  /\ cancelled = [s \in Sinks |-> FALSE]
  /\ pc = [s \in Sinks |-> "start"]
  /\ batch = [s \in Sinks |-> <<>>]
  /\ tpl = [s \in Sinks |-> <<>>]
  /\ drainAt = [s \in Sinks |->
                  [on |-> FALSE, cons |-> 0, stores |-> 0, commits |-> 0]]
  /\ consumed = [s \in Sinks |-> <<>>]
  /\ storeLog = [s \in Sinks |-> <<>>]
  /\ commitLog = [s \in Sinks |-> <<>>]
  /\ owner = [p \in Partitions |-> (p % NumSinks) + 1]
  /\ position = [p \in Partitions |-> 0]
  /\ committed = [p \in Partitions |-> 0]
  /\ rebalances = 0

\* ------------------------------------------------------------- sink task

\* mutant of SinkFailed: the error is logged and the task just ends
SinkFailed_NoExit(s) ==
  /\ pc' = [pc EXCEPT ![s] = "failed"]
  /\ UNCHANGED exitCode

\* main.rs: a sink error ends the process: error!, process::exit(1)
SinkFailed(s) ==
  /\ pc' = [pc EXCEPT ![s] = "failed"]
  /\ exitCode' = 1

\* start_lakesink up to the loop: parse the batch size or panic
ParseBatchSize(s) ==
  /\ Running
  /\ pc[s] = "start"
  /\ pc' = [pc EXCEPT ![s] = IF batch_size = ParseErr THEN "panicked" ELSE "running"]
  /\ UNCHANGED <<env, mode, mainVars, exitCode, batch, tpl, drainAt,
                 consumed, storeLog, commitLog, groupVars>>

\* TopicPartitionList::add_partition_offset: an element for the partition is
\* added to the list and its offset is set
add_partition_offset(t, p, o) == Append(t, [p |-> p, offset |-> o])

\* the elements of list t that name partition p, as positions in t
ElemsOf(t, p) == {i \in 1..Len(t) : t[i].p = p}

\* the offset of the element of p that list t holds last, NoOffset if none
OffsetOf(t, p) ==
  IF ElemsOf(t, p) = {} THEN NoOffset
  ELSE t[CHOOSE i \in ElemsOf(t, p) : \A j \in ElemsOf(t, p) : j <= i].offset

\* the position of a sink after it pushed a record
AfterPush(b) == IF Len(b) >= batch_size THEN "store" ELSE "running"

\* mutant of AtSelect: cancellation and consume are polled at every await
AtSelect_AnyAwait(s) == pc[s] \in {"running", "store", "commit"}

\* the sink task is at the select! of its loop
AtSelect(s) == pc[s] = "running"

\* select!: consume() returns a record; it is pushed to the batch
ConsumeOk(s, p) ==
  /\ Running
  /\ AtSelect(s)
  /\ owner[p] = s
  /\ position[p] < LogLen
  /\ payload_view(p, position[p]).kind # "invalid"
  /\ LET o == position[p]
         rec == [p |-> p, o |-> o, v |-> payload_view(p, o).s]
         b == Append(batch[s], rec)
     IN  /\ position' = [position EXCEPT ![p] = o + 1]
         /\ tpl' = [tpl EXCEPT ![s] = add_partition_offset(tpl[s], p, o + 1)]
         /\ consumed' = [consumed EXCEPT ![s] = Append(@, rec)]
         /\ batch' = [batch EXCEPT ![s] = b]
         /\ pc' = [pc EXCEPT ![s] = AfterPush(b)]
  /\ UNCHANGED <<env, mode, mainVars, exitCode, drainAt, storeLog, commitLog,
                 owner, committed, rebalances>>

\* select!: consume() returns Err (recv error): record_res? ends the sink
ConsumeErr(s) ==
  /\ Running
  /\ AtSelect(s)
  /\ SinkFailed(s)
  /\ UNCHANGED <<env, mode, mainVars, batch, tpl, drainAt, consumed,
                 storeLog, commitLog, groupVars>>

\* select!: consume() receives a record whose payload is not UTF-8 and returns
\* Err (deserialize error) before the tracker is touched
ConsumeInvalid(s, p) ==
  /\ Running
  /\ AtSelect(s)
  /\ owner[p] = s
  /\ position[p] < LogLen
  /\ payload_view(p, position[p]).kind = "invalid"
  /\ position' = [position EXCEPT ![p] = @ + 1]
  /\ SinkFailed(s)
  /\ UNCHANGED <<env, mode, mainVars, batch, tpl, drainAt, consumed,
                 storeLog, commitLog, owner, committed, rebalances>>

\* mutant of AfterCancel: the sink breaks out of the loop without a flush
AfterCancel_NoDrain(b) == "done"

\* mutant of AfterCancel: the draining flush runs whatever the buffer holds
AfterCancel_Always(b) == "store"

\* the position of a sink that observed cancellation with batch b
AfterCancel(b) == IF b # <<>> THEN "store" ELSE "done"

\* mutant of CancelReady: cancelled() resolves though nobody cancelled
CancelReady_Always(s) == TRUE

\* cancel_token.cancelled() is ready: the token has been cancelled
CancelReady(s) == cancelled[s]

\* select!: cancel_token.cancelled() resolves
ObserveCancel(s) ==
  /\ Running
  /\ AtSelect(s)
  /\ CancelReady(s)
  /\ drainAt' = [drainAt EXCEPT ![s] = [on |-> TRUE, cons |-> Len(consumed[s]),
                                         stores |-> Len(storeLog[s]),
                                         commits |-> Len(commitLog[s])]]
  /\ pc' = [pc EXCEPT ![s] = AfterCancel(batch[s])]
  /\ UNCHANGED <<env, mode, mainVars, exitCode, batch, tpl, consumed,
                 storeLog, commitLog, groupVars>>

\* mutant of AfterStore: a failed store is tried again
AfterStore_Retry(ok) == IF ok THEN "commit" ELSE "store"

\* mutant of AfterStore: the result of lake.store is ignored
AfterStore_IgnoreErr(ok) == "commit"

\* mutant of AfterStore: store_batch returns without commit_last_consume
AfterStore_SkipCommit(ok) == IF ok THEN "running" ELSE "failed"

\* the position of a sink after lake.store returned
AfterStore(ok) == IF ok THEN "commit" ELSE "failed"

\* store_batch: contents = batch.join("\n"); lake.store(&contents).await?
Store(s) ==
  /\ Running
  /\ pc[s] = "store"
  /\ \E ok \in BOOLEAN :
       /\ storeLog' = [storeLog EXCEPT ![s] =
            Append(@, [recs |-> batch[s], blob |-> join(Payloads(batch[s]), "\n"),
                       ok |-> ok, nCons |-> Len(consumed[s])])]
       /\ IF AfterStore(ok) = "failed"
          THEN SinkFailed(s)
          ELSE /\ pc' = [pc EXCEPT ![s] = AfterStore(ok)]
               /\ UNCHANGED exitCode
  /\ UNCHANGED <<env, mode, mainVars, batch, tpl, drainAt, consumed,
                 commitLog, groupVars>>

\* consumer.commit(&tpl, Async) on the broker: the offset of every partition
\* the list names, the elements taken in order
Committed(c, t) ==
  [p \in Partitions |-> IF OffsetOf(t, p) # NoOffset THEN OffsetOf(t, p) ELSE c[p]]

\* mutant of TrackerAfterCommit: the list is emptied once it was committed
TrackerAfterCommit_Clear(t) == <<>>

\* commit_last_consume only reads the list behind its lock
TrackerAfterCommit(t) == t

\* mutant of AfterFlush: batch.clear() is missing
AfterFlush_NoClear(s) == batch[s]

\* the batch after a flush that both stored and committed
AfterFlush(s) == IF drainAt[s].on THEN batch[s] ELSE <<>>

\* mutant of AfterCommit: the break after the draining flush is missing
AfterCommit_NoBreak(s) == "running"

\* the position of a sink after store_batch returned Ok: break after the
\* draining flush, the next iteration of the loop after a threshold flush
AfterCommit(s) == IF drainAt[s].on THEN "done" ELSE "running"

\* store_batch: rec_stream.commit_last_consume().await?; then batch.clear()
\* in the threshold flush, break in the draining flush
Commit(s) ==
  /\ Running
  /\ pc[s] = "commit"
  /\ \E ok \in BOOLEAN :
       /\ commitLog' = [commitLog EXCEPT ![s] =
            Append(@, [offsets |-> tpl[s], ok |-> ok, nCons |-> Len(consumed[s]),
                       nStores |-> Len(storeLog[s])])]
       /\ IF ok
          THEN /\ committed' = Committed(committed, tpl[s])
               /\ batch' = [batch EXCEPT ![s] = AfterFlush(s)]
               /\ pc' = [pc EXCEPT ![s] = AfterCommit(s)]
               /\ UNCHANGED exitCode
          ELSE /\ SinkFailed(s)
               /\ UNCHANGED <<committed, batch>>
  /\ tpl' = [tpl EXCEPT ![s] = TrackerAfterCommit(@)]
  /\ UNCHANGED <<env, mode, mainVars, drainAt, consumed, storeLog,
                 owner, position, rebalances>>

\* ----------------------------------------------------------- the group

\* the sink's consumer exists and is a member of the group
Live(s) == pc[s] \in {"running", "store", "commit"}

\* pre_rebalance / post_rebalance only log: partition p moves to sink s,
\* which resumes from the committed offset; the tracker and the batch of the
\* sink that loses p stay as they are
Rebalance(p, s) ==
  /\ Running
  /\ rebalances < MaxRebalances
  /\ owner[p] # s
  /\ Live(s)
  /\ owner' = [owner EXCEPT ![p] = s]
  /\ position' = [position EXCEPT ![p] = committed[p]]
  /\ rebalances' = rebalances + 1
  /\ UNCHANGED <<env, mode, mainVars, exitCode, sinkVars, committed>>

\* ------------------------------------------------------------------ main

\* start_aggregation(..).await.unwrap() returns
AggregationOk ==
  /\ Running
  /\ mainPc = "aggregating"
  /\ mainPc' = "cancelling"
  /\ UNCHANGED <<env, mode, exitCode, cancelled, sinkVars, groupVars>>

\* start_aggregation(..).await.unwrap() panics
AggregationErr ==
  /\ Running
  /\ mainPc = "aggregating"
  /\ exitCode' = 101
  /\ UNCHANGED <<env, mode, mainVars, sinkVars, groupVars>>

\* mutant of cancel: a token that is cancelled again is armed again
cancel_Toggle(c, s) == [c EXCEPT ![s] = ~c[s]]

\* CancellationToken::cancel on the token of sink s
cancel(c, s) == [c EXCEPT ![s] = TRUE]

\* mutant of TokensToCancel: only the first token is cancelled
TokensToCancel_FirstOnly == {s \in {1} : ~cancelled[s]}

\* the tokens of lakesink_cancel_tokens the for_each has not reached yet
TokensToCancel == {s \in Sinks : ~cancelled[s]}

\* lakesink_cancel_tokens.iter().for_each(|t| t.cancel())
CancelNext ==
  /\ Running
  /\ mainPc = "cancelling"
  /\ LET todo == TokensToCancel
     IN  IF todo = {}
         THEN /\ mainPc' = "joining"
              /\ UNCHANGED cancelled
         ELSE /\ cancelled' = cancel(cancelled, CHOOSE s \in todo : \A u \in todo : s <= u)
              /\ UNCHANGED mainPc
  /\ UNCHANGED <<env, mode, exitCode, sinkVars, groupVars>>

\* try_join_all(tasks).await.unwrap(): every task returned
JoinOk ==
  /\ Running
  /\ mainPc = "joining"
  /\ \A s \in Sinks : pc[s] = "done"
  /\ mainPc' = "returned"
  /\ exitCode' = 0
  /\ UNCHANGED <<env, mode, cancelled, sinkVars, groupVars>>

\* try_join_all(tasks).await.unwrap(): a task panicked
JoinErr ==
  /\ Running
  /\ mainPc = "joining"
  /\ \E s \in Sinks : pc[s] = "panicked"
  /\ exitCode' = 101
  /\ UNCHANGED <<env, mode, mainVars, sinkVars, groupVars>>

\* start_server(..).await.unwrap() returns or panics
ServerEnds ==
  /\ Running
  /\ mainPc = "serving"
  /\ \E ok \in BOOLEAN :
       IF ok THEN mainPc' = "returned" /\ exitCode' = 0
             ELSE exitCode' = 101 /\ UNCHANGED mainPc
  /\ UNCHANGED <<env, mode, cancelled, sinkVars, groupVars>>

Next ==
  \/ \E s \in Sinks : ParseBatchSize(s)
  \/ \E s \in Sinks, p \in Partitions : ConsumeOk(s, p)
  \/ \E s \in Sinks : ConsumeErr(s)
  \/ \E s \in Sinks, p \in Partitions : ConsumeInvalid(s, p)
  \/ \E s \in Sinks : ObserveCancel(s)
  \/ \E s \in Sinks : Store(s)
  \/ \E s \in Sinks : Commit(s)
  \/ \E p \in Partitions, s \in Sinks : Rebalance(p, s)
  \/ AggregationOk
  \/ AggregationErr
  \/ CancelNext
  \/ JoinOk
  \/ JoinErr
  \/ ServerEnds

Spec == Init /\ [][Next]_vars

\* The run with --aggregator, under the scheduling the runtime gives: every
\* task that can take a step eventually takes one (lake.store and commit
\* return, main is polled), and select! picks its branches in random order,
\* so a cancellation that is ready again and again is eventually observed.
InitAggregator == Init /\ mode = "aggregator"

\* the first reassignment of a run
RebalanceOnce(p, s) == rebalances = 0 /\ Rebalance(p, s)

NextAggregator ==
  \/ \E s \in Sinks : ParseBatchSize(s)
  \/ \E s \in Sinks, p \in Partitions : ConsumeOk(s, p)
  \/ \E s \in Sinks : ConsumeErr(s)
  \/ \E s \in Sinks, p \in Partitions : ConsumeInvalid(s, p)
  \/ \E s \in Sinks : ObserveCancel(s)
  \/ \E s \in Sinks : Store(s)
  \/ \E s \in Sinks : Commit(s)
  \/ \E p \in Partitions, s \in Sinks : RebalanceOnce(p, s)
  \/ AggregationOk
  \/ AggregationErr
  \/ CancelNext
  \/ JoinOk
  \/ JoinErr

Fairness ==
  /\ WF_vars(CancelNext)
  /\ WF_vars(JoinOk)
  /\ WF_vars(JoinErr)
  /\ \A s \in Sinks :
       /\ WF_vars(ParseBatchSize(s))
       /\ WF_vars(Store(s))
       /\ WF_vars(Commit(s))
       /\ SF_vars(ObserveCancel(s))

FairSpec == InitAggregator /\ [][NextAggregator]_vars /\ Fairness

\* ------------------------------------------------------------ properties

\* record (p, o) is in a batch
InBatch(b, p, o) == \E m \in 1..Len(b) : b[m].p = p /\ b[m].o = o

\* record (p, o) is in one of the first n store calls of s, and that call succeeded
StoredBy(s, n, p, o) ==
  \E j \in 1..n : storeLog[s][j].ok /\ InBatch(storeLog[s][j].recs, p, o)

\* C1 (store-before-commit): every commit call of a sink, at the time it is
\* issued, names for a partition only offsets n such that every record of
\* that partition the sink has consumed with offset < n is in an earlier
\* successful store call of the sink; and every offset the group holds as
\* committed is above stored records only.
StoreBeforeCommit ==
  /\ \A s \in Sinks : \A i \in 1..Len(commitLog[s]) :
       LET c == commitLog[s][i]
       IN  \A k \in 1..c.nCons : \A e \in 1..Len(c.offsets) :
             LET r == consumed[s][k]
             IN  (r.p = c.offsets[e].p /\ r.o < c.offsets[e].offset) =>
                   StoredBy(s, c.nStores, r.p, r.o)
  /\ \A p \in Partitions : \A o \in 0..(committed[p] - 1) :
       \E s \in Sinks : StoredBy(s, Len(storeLog[s]), p, o)

\* C1 witness: after a rebalance, a commit call took effect that names an
\* offset above a record the sink consumed
C1_Witness ==
  \E s \in Sinks : \E i \in 1..Len(commitLog[s]) :
    /\ commitLog[s][i].ok
    /\ rebalances >= 1
    /\ \E k \in 1..commitLog[s][i].nCons :
         consumed[s][k].o < OffsetOf(commitLog[s][i].offsets, consumed[s][k].p)

\* a commit call of s after it observed cancellation took effect
DrainCommitted(s) ==
  \E i \in (drainAt[s].commits + 1)..Len(commitLog[s]) : commitLog[s][i].ok

\* outcome (a): the K buffered records were stored in one successful store
\* call, their offsets were committed after it, and the sink returned
OutcomeDone(s) ==
  /\ pc[s] = "done"
  /\ IF batch[s] = <<>>
     THEN /\ Len(storeLog[s]) = drainAt[s].stores
          /\ Len(commitLog[s]) = drainAt[s].commits
     ELSE /\ Len(storeLog[s]) = drainAt[s].stores + 1
          /\ storeLog[s][Len(storeLog[s])].ok
          /\ storeLog[s][Len(storeLog[s])].recs = batch[s]
          /\ Len(commitLog[s]) = drainAt[s].commits + 1
          /\ LET c == commitLog[s][Len(commitLog[s])]
             IN  /\ c.ok
                 /\ c.nStores = Len(storeLog[s])
                 /\ \A m \in 1..Len(batch[s]) : OffsetOf(c.offsets, batch[s][m].p) > batch[s][m].o

\* outcome (b): the sink reported a fatal error and no commit took effect
OutcomeFailed(s) == pc[s] = "failed" /\ ~DrainCommitted(s)

\* C2 (no loss on graceful shutdown): a sink that observed cancellation
\* holding K records and whose task has ended is in outcome (a), all K stored
\* in one successful store call and their offsets then committed, sink done,
\* or in outcome (b), sink failed and no commit for the K took effect.
NoLossOnShutdown ==
  \A s \in Sinks :
    (drainAt[s].on /\ pc[s] \in {"done", "failed"}) =>
      (OutcomeDone(s) \/ OutcomeFailed(s))

\* C3 (batch boundary): a sink that consumes is flushing exactly when its
\* buffer holds batch_size records, and the buffer never holds more.
BatchBoundary ==
  \A s \in Sinks :
    (pc[s] \in {"running", "store", "commit"} /\ ~drainAt[s].on) =>
      /\ Len(batch[s]) <= batch_size
      /\ pc[s] \in {"store", "commit"} => Len(batch[s]) = batch_size
      /\ (pc[s] = "running" /\ batch[s] # <<>>) => Len(batch[s]) < batch_size

\* C4 (offset monotonicity): every value a consume records in the tracker
\* for a partition is above the value recorded for it before.
TrackerMonotone ==
  [][\A s \in Sinks : \A p \in Partitions :
       OffsetOf(tpl'[s], p) # OffsetOf(tpl[s], p) =>
         OffsetOf(tpl'[s], p) > OffsetOf(tpl[s], p)]_vars

\* C5 (store failure is fatal): a failed store call is the sink's last store
\* call, the sink has failed, it consumed nothing after the call and issued
\* no commit call after it.
StoreFailureFatal ==
  \A s \in Sinks : \A j \in 1..Len(storeLog[s]) :
    ~storeLog[s][j].ok =>
      /\ j = Len(storeLog[s])
      /\ pc[s] = "failed"
      /\ exitCode = 1
      /\ Len(consumed[s]) = storeLog[s][j].nCons
      /\ \A i \in 1..Len(commitLog[s]) : commitLog[s][i].nStores < j

\* C5 witness: the draining flush of a sink failed in its store call after an
\* earlier flush of that sink had succeeded
C5_Witness ==
  \E s \in Sinks :
    /\ drainAt[s].on
    /\ Len(storeLog[s]) >= 2
    /\ storeLog[s][1].ok
    /\ ~storeLog[s][Len(storeLog[s])].ok

\* C6 (no empty flush): no store call carries an empty batch; a sink that
\* observed cancellation with an empty buffer is done and has stored and
\* committed nothing since; a sink that observed cancellation after fewer
\* than batch_size records has, once its flush has run, made exactly one
\* store call, with exactly those records.
NoEmptyFlush ==
  \A s \in Sinks :
    /\ \A j \in 1..Len(storeLog[s]) : storeLog[s][j].recs # <<>>
    /\ (drainAt[s].on /\ batch[s] = <<>>) =>
         /\ pc[s] = "done"
         /\ Len(storeLog[s]) = drainAt[s].stores
         /\ Len(commitLog[s]) = drainAt[s].commits
    /\ (drainAt[s].on /\ Len(consumed[s]) > 0 /\ Len(consumed[s]) < batch_size
          /\ pc[s] # "store") =>
         /\ Len(storeLog[s]) = 1
         /\ storeLog[s][1].recs = consumed[s]

\* C6 witness: one sink that had flushed before observed cancellation with
\* an empty buffer and returned without a flush; another observed it holding
\* fewer than batch_size records and made its only store call
C6_Witness ==
  \E s, u \in Sinks :
    /\ drainAt[s].on
    /\ batch[s] = <<>>
    /\ pc[s] = "done"
    /\ Len(storeLog[s]) >= 1
    /\ drainAt[u].on
    /\ pc[u] = "done"
    /\ Len(consumed[u]) > 0
    /\ Len(consumed[u]) < batch_size
    /\ Len(storeLog[u]) = 1

RECURSIVE StoredConcat(_)
\* the batches of the successful store calls of a log, concatenated
StoredConcat(log) ==
  IF log = <<>> THEN <<>>
  ELSE (IF Head(log).ok THEN Head(log).recs ELSE <<>>) \o StoredConcat(Tail(log))

RECURSIVE NewlineSeparated(_)
\* s1 "\n" s2 "\n" ... sn, built from the right end
NewlineSeparated(strs) ==
  IF strs = <<>> THEN ""
  ELSE IF Len(strs) = 1 THEN strs[1]
  ELSE NewlineSeparated(SubSeq(strs, 1, Len(strs) - 1)) \o "\n" \o strs[Len(strs)]

IsPrefix(a, b) == Len(a) <= Len(b) /\ a = SubSeq(b, 1, Len(a))

\* C7 (flushed content equals consumed content): the successfully stored
\* batches of a sink, concatenated, are a prefix of what it consumed; while
\* the sink consumes or is about to store, stored batches followed by the
\* buffer are exactly what it consumed (so the buffer is empty after a
\* threshold flush); every blob is its batch joined by newlines; a sink that
\* is done has stored exactly what it consumed.
FlushedEqualsConsumed ==
  \A s \in Sinks :
    /\ IsPrefix(StoredConcat(storeLog[s]), consumed[s])
    /\ (pc[s] \in {"running", "store"} /\ ~drainAt[s].on) =>
         StoredConcat(storeLog[s]) \o batch[s] = consumed[s]
    /\ \A j \in 1..Len(storeLog[s]) :
         /\ storeLog[s][j].blob = NewlineSeparated(Payloads(storeLog[s][j].recs))
         /\ Payloads(storeLog[s][j].recs) = <<"a", "b", "c">> =>
              storeLog[s][j].blob = "a\nb\nc"
    /\ pc[s] = "done" => StoredConcat(storeLog[s]) = consumed[s]

\* C7 witness: batch_size 3, records a, b, c, d, then cancellation: the blobs
\* "a\nb\nc" and "d"
C7_Witness ==
  \E s \in Sinks :
    /\ batch_size = 3
    /\ pc[s] = "done"
    /\ Len(storeLog[s]) = 2
    /\ storeLog[s][1].blob = "a\nb\nc"
    /\ storeLog[s][2].blob = "d"
    /\ storeLog[s][2].ok

\* every sink task is over, or the process has ended with an error
AllSinksOver ==
  \/ \A s \in Sinks : pc[s] \in {"done", "failed", "panicked"}
  \/ exitCode \in {1, 101}

\* C8 (orchestrated shutdown): once the aggregation pass has completed, every
\* token is eventually cancelled and every sink eventually is done or has
\* ended in a fatal error, unless a fatal error ends the process first; and
\* main returns only when every sink task has finished.
OrchestratedShutdown ==
  /\ [](exitCode = 0 => \A s \in Sinks : pc[s] = "done")
  /\ (mainPc = "cancelling") ~> ((\A s \in Sinks : cancelled[s]) \/ ~Running)
  /\ (mainPc = "cancelling") ~> AllSinksOver

\* C8 witness: main returned after every sink had drained and returned, one
\* of them with records of its partition still unread
C8_Witness ==
  /\ exitCode = 0
  /\ mainPc = "returned"
  /\ \A s \in Sinks : pc[s] = "done" /\ drainAt[s].on
  /\ \E p \in Partitions : position[p] < LogLen /\ pc[owner[p]] = "done"

\* C9 (one sink's error fails the pipeline): whenever a sink has ended with
\* an error the process has exited with a non-zero status.
SinkErrorFailsPipeline ==
  (\E s \in Sinks : pc[s] = "failed") => exitCode \notin {NoExit, 0}

\* C9 witness: a sink failed after another sink had drained and returned
C9_Witness ==
  \E s, u \in Sinks : pc[s] = "failed" /\ pc[u] = "done" /\ mainPc = "joining"

\* C10 (no committed-offset regression): the offset the group holds as
\* committed for a partition never decreases.
CommittedMonotone ==
  [][\A p \in Partitions : committed'[p] >= committed[p]]_vars

Last(q) == q[Len(q)]

\* s is at its select! with its token cancelled: both branches may be ready
InRace(s) == Running /\ AtSelect(s) /\ cancelled[s]

\* C12 (no silent drop in the consume/cancel race): a step taken while a sink
\* is at select! with its token cancelled either leaves the sink's consumed
\* records, buffer and tracker as they are (the record is not taken) or
\* appends the record to all three; every element of a tracker names a record
\* that is in the sink's buffer or in a successful store call of the sink,
\* and every offset below it is buffered or stored by some sink; a sink that
\* is done has stored every record it took.
NoSilentDrop ==
  /\ [](\A s \in Sinks :
          /\ \A e \in 1..Len(tpl[s]) :
               /\ \/ InBatch(batch[s], tpl[s][e].p, tpl[s][e].offset - 1)
                  \/ StoredBy(s, Len(storeLog[s]), tpl[s][e].p, tpl[s][e].offset - 1)
               /\ \A o \in 0..(tpl[s][e].offset - 1) :
                    \/ InBatch(batch[s], tpl[s][e].p, o)
                    \/ \E u \in Sinks : StoredBy(u, Len(storeLog[u]), tpl[s][e].p, o)
          /\ pc[s] = "done" =>
               \A k \in 1..Len(consumed[s]) :
                 StoredBy(s, Len(storeLog[s]), consumed[s][k].p, consumed[s][k].o))
  /\ [][\A s \in Sinks : InRace(s) =>
          \/ /\ consumed'[s] = consumed[s]
             /\ batch'[s] = batch[s]
             /\ tpl'[s] = tpl[s]
          \/ /\ Len(consumed'[s]) = Len(consumed[s]) + 1
             /\ consumed'[s] = Append(consumed[s], Last(consumed'[s]))
             /\ batch'[s] = Append(batch[s], Last(consumed'[s]))
             /\ tpl'[s] = Append(tpl[s], [p |-> Last(consumed'[s]).p,
                                           offset |-> Last(consumed'[s]).o + 1])]_vars

\* C12 witness: a sink that already holds a record is at select! with its
\* token cancelled and a record of its partition ready
C12_Witness ==
  \E s \in Sinks : \E p \in Partitions :
    /\ InRace(s)
    /\ batch[s] # <<>>
    /\ owner[p] = s
    /\ position[p] < LogLen
    /\ payload_view(p, position[p]).kind = "text"

\* C13 (no consumption after draining starts): a sink that observed
\* cancellation has consumed nothing since and added nothing to its tracker,
\* is not at select! again, and has made at most one store call and at most
\* one commit call since.
NoConsumeAfterDrain ==
  \A s \in Sinks :
    drainAt[s].on =>
      /\ Len(consumed[s]) = drainAt[s].cons
      /\ Len(tpl[s]) = drainAt[s].cons
      /\ pc[s] # "running"
      /\ Len(storeLog[s]) <= drainAt[s].stores + 1
      /\ Len(commitLog[s]) <= drainAt[s].commits + 1

\* C13 witness: a sink made its draining store and commit and returned while
\* a record of a partition it owns was still unread
C13_Witness ==
  \E s \in Sinks : \E p \in Partitions :
    /\ drainAt[s].on
    /\ pc[s] = "done"
    /\ Len(storeLog[s]) = drainAt[s].stores + 1
    /\ Len(commitLog[s]) = drainAt[s].commits + 1
    /\ owner[p] = s
    /\ position[p] < LogLen

\* C14 (a flush is not interrupted by cancellation): a sink inside store or
\* commit neither observes cancellation nor consumes; it leaves store only
\* for commit or a fatal error and commit only for the loop, the end of the
\* task or a fatal error.  When a sink observes cancellation every earlier
\* successful store call has had its commit.  A draining sink that returned
\* holding records has made its store and its commit, both successful; one
\* that failed has a failed store or a failed commit as its last call.
FlushNotInterrupted ==
  /\ [][\A s \in Sinks :
          /\ pc[s] \in {"store", "commit"} =>
               (drainAt'[s] = drainAt[s] /\ consumed'[s] = consumed[s])
          /\ pc[s] = "store" => pc'[s] \in {"store", "commit", "failed"}
          /\ pc[s] = "commit" => pc'[s] \in {"commit", "running", "done", "failed"}]_vars
  /\ [](\A s \in Sinks :
          /\ drainAt[s].on =>
               \A j \in 1..drainAt[s].stores :
                 storeLog[s][j].ok =>
                   \E i \in 1..drainAt[s].commits :
                     commitLog[s][i].nStores = j /\ commitLog[s][i].ok
          /\ (drainAt[s].on /\ pc[s] = "done" /\ batch[s] # <<>>) =>
               /\ Len(storeLog[s]) = drainAt[s].stores + 1
               /\ Last(storeLog[s]).ok
               /\ Len(commitLog[s]) = drainAt[s].commits + 1
               /\ Last(commitLog[s]).ok
          /\ (drainAt[s].on /\ pc[s] = "failed") =>
               /\ Len(storeLog[s]) = drainAt[s].stores + 1
               /\ \/ ~Last(storeLog[s]).ok
                  \/ /\ Len(commitLog[s]) = drainAt[s].commits + 1
                     /\ ~Last(commitLog[s]).ok)

\* C14 witness: the token of a sink was cancelled while the sink is inside a
\* threshold flush, between its store and its commit
C14_Witness ==
  \E s \in Sinks :
    /\ cancelled[s]
    /\ pc[s] = "commit"
    /\ ~drainAt[s].on
    /\ Last(storeLog[s]).ok

\* the successful store calls of s, as positions in storeLog[s]
OkStores(s) == {j \in 1..Len(storeLog[s]) : storeLog[s][j].ok}

\* C15 (commit is sequenced after its flush): every commit call of a sink
\* comes after a successful store call of that sink, the last call before
\* it, with no consume in between and no other commit call for that store;
\* a successful store call after which the sink consumed or stored again
\* has had its commit call; commit calls never outnumber successful stores.
CommitAfterStore ==
  \A s \in Sinks :
    /\ \A i \in 1..Len(commitLog[s]) :
         LET c == commitLog[s][i]
         IN  /\ c.nStores \in OkStores(s)
             /\ storeLog[s][c.nStores].nCons = c.nCons
             /\ \A h \in 1..(i - 1) : commitLog[s][h].nStores < c.nStores
    /\ \A j \in OkStores(s) :
         (j < Len(storeLog[s]) \/ Len(consumed[s]) > storeLog[s][j].nCons) =>
           \E i \in 1..Len(commitLog[s]) : commitLog[s][i].nStores = j
    /\ Len(commitLog[s]) <= Cardinality(OkStores(s))

\* C15 witness: a sink flushed twice, consuming in between
C15_Witness ==
  \E s \in Sinks :
    /\ Len(commitLog[s]) = 2
    /\ commitLog[s][1].nCons < commitLog[s][2].nCons
    /\ commitLog[s][2].nStores = 2

\* C16 (consume updates only the consumed partition's entry): a step in which
\* a sink consumes the record at (p, o) leaves its tracker with a single
\* element for p, of offset o + 1, leaves the elements of every other
\* partition and the trackers of the other sinks as they are; a step in which
\* a sink consumes nothing leaves its tracker unchanged.
ConsumeFrame ==
  [][\A s \in Sinks :
       IF consumed'[s] # consumed[s]
       THEN LET r == Last(consumed'[s])
            IN  /\ Cardinality(ElemsOf(tpl'[s], r.p)) = 1
                /\ OffsetOf(tpl'[s], r.p) = r.o + 1
                /\ \A q \in Partitions \ {r.p} :
                     /\ ElemsOf(tpl'[s], q) = ElemsOf(tpl[s], q)
                     /\ \A i \in ElemsOf(tpl[s], q) : tpl'[s][i] = tpl[s][i]
       ELSE tpl'[s] = tpl[s]]_vars

\* the batch-size tunable is not a valid positive integer
NotPositive == batch_size = ParseErr \/ batch_size = 0

\* C17 (malformed configuration is fatal before consumption): when the
\* batch-size tunable is not a valid positive integer no sink gets past its
\* startup, none consumes, stores or commits, and a process in which a sink
\* failed at startup does not end with status 0.
MalformedConfigFatal ==
  NotPositive =>
    /\ \A s \in Sinks :
         /\ pc[s] \in {"start", "panicked"}
         /\ consumed[s] = <<>>
         /\ storeLog[s] = <<>>
         /\ commitLog[s] = <<>>
    /\ (\E s \in Sinks : pc[s] = "panicked") => exitCode # 0

\* C18 (commit leaves the tracker unchanged): no step removes or changes an
\* element of a tracker and a commit call, successful or not, adds none;
\* every commit call sends the whole list as it was then, which names every
\* partition the sink had consumed from, whoever owns it.
CommitKeepsTracker ==
  /\ [][\A s \in Sinks :
          /\ IsPrefix(tpl[s], tpl'[s])
          /\ commitLog'[s] # commitLog[s] => tpl'[s] = tpl[s]]_vars
  /\ [](\A s \in Sinks : \A i \in 1..Len(commitLog[s]) :
          LET c == commitLog[s][i]
          IN  /\ IsPrefix(c.offsets, tpl[s])
              /\ Len(c.offsets) = c.nCons
              /\ \A k \in 1..c.nCons :
                   OffsetOf(c.offsets, consumed[s][k].p) # NoOffset)

\* C18 witness: a commit call of a sink took effect for a partition the sink
\* had lost before (the new owner was sent back to the offset committed until
\* then), and a failed commit call left a sink with its tracker
C18_Witness ==
  /\ \E s \in Sinks : \E p \in Partitions :
       /\ commitLog[s] # <<>>
       /\ Last(commitLog[s]).ok
       /\ OffsetOf(Last(commitLog[s]).offsets, p) = 1
       /\ owner[p] # s
       /\ committed[p] = 1
       /\ position[p] = 0
  /\ \E u \in Sinks :
       /\ commitLog[u] # <<>>
       /\ ~Last(commitLog[u]).ok
       /\ tpl[u] # <<>>

\* C19 (cancellation only after a successful aggregation): a token is
\* cancelled only in aggregator mode and only once the aggregation pass has
\* returned; without --aggregator, or while the pass has not returned or
\* after it failed, no token is cancelled, no sink has observed cancellation
\* or is done, and no draining store or commit call exists.
CancelOnlyAfterAggregation ==
  /\ (\E s \in Sinks : cancelled[s]) =>
       (mode = "aggregator" /\ mainPc \in {"cancelling", "joining", "returned"})
  /\ (mode # "aggregator" \/ mainPc = "aggregating") =>
       \A s \in Sinks :
         /\ ~cancelled[s]
         /\ ~drainAt[s].on
         /\ pc[s] \in {"start", "running", "store", "commit", "failed", "panicked"}

\* C19 witness: without --aggregator a sink flushed and later ended in a
\* fatal error
C19_Witness ==
  /\ mode # "aggregator"
  /\ \E s \in Sinks : pc[s] = "failed" /\ commitLog[s] # <<>>

====
